---- MODULE Spec2Model ----
(***************************************************************************)
(* Model of reviewrot/basereview.py: BaseService.check_request_state (the  *)
(* time-window filter) and BaseReview (format_duration, format and its     *)
(* four style formatters, __json__).                                       *)
(*                                                                         *)
(* A platform client filters a review request with check_request_state,    *)
(* constructs a BaseReview for it, renders the review and drops it.  The   *)
(* state is the UTC clock `utcnow`, the review under construction          *)
(* `review` (None before construction), and the call that ran last: `op`   *)
(* names the operation, `args` holds its arguments, `ret` its outcome (a   *)
(* returned value or a raised exception).  Return hands the outcome to the *)
(* caller.                                                                 *)
(*                                                                         *)
(* Datetimes are naive UTC datetimes at one-second resolution, held as     *)
(* records [year, month, day, hour, minute, second] or as a number of      *)
(* seconds since 2020-01-01 00:00:00.  Strings are sequences of pieces,    *)
(* concatenated with \o.  The control bytes \x02 and \x03 are written as   *)
(* the pieces "\\x02", "\\x0312" and "\\x03".                              *)
(***************************************************************************)
EXTENDS Integers, Sequences, FiniteSets, TLC

VARIABLES utcnow, review, op, args, ret

vars == <<utcnow, review, op, args, ret>>

-----------------------------------------------------------------------------
(* Bounds of the model *)

\* largest filter value tried
MaxValue == 2
\* largest comment count of a record
MaxComments == 2
\* largest list length (N) handed to format
MaxTotal == 2

-----------------------------------------------------------------------------
(* Python values *)

\* A value that may be None is None (the empty tuple) or Some(v) (<<v>>).
\* The booleans False and True are the integers 0 and 1, as in Python.
None == <<>>
Some(v) == <<v>>
IsNone(x) == x = <<>>
Val(x) == x[1]

\* the assignment "x = v" followed by Body, which reads x: v is computed once
Assign(v, Body(_)) == CHOOSE r \in { Body(x) : x \in {v} } : TRUE

Returns(v) == [kind |-> "return", value |-> v]
Raises(exc, msg) == [kind |-> "raise", exc |-> exc, msg |-> msg]

Abs(x) == IF x < 0 THEN -x ELSE x
Min(a, b) == IF a < b THEN a ELSE b
\* dateutil's _sign: copysign(1, x)
Sign(x) == IF x < 0 THEN -1 ELSE 1
\* int(x / d) for d > 0: truncation toward zero, as relativedelta._fix does
\* with divmod on the absolute value
TruncDiv(x, d) == Sign(x) * (Abs(x) \div d)
TruncMod(x, d) == Sign(x) * (Abs(x) % d)

-----------------------------------------------------------------------------
(* datetime.datetime (proleptic Gregorian calendar) *)

Years == 2018..2027

IsLeap(y) == (y % 4 = 0) /\ ((y % 100 # 0) \/ (y % 400 = 0))

DaysInMonth(y, m) ==
    IF m = 2 THEN (IF IsLeap(y) THEN 29 ELSE 28)
    ELSE IF m \in {4, 6, 9, 11} THEN 30 ELSE 31

\* number of days before January 1st of year y
DaysBeforeYear(y) ==
    (y - 1) * 365 + ((y - 1) \div 4) - ((y - 1) \div 100) + ((y - 1) \div 400)

\* number of days of year y before the first day of month m
DaysBeforeMonth(y, m) ==
    <<0, 31, 59, 90, 120, 151, 181, 212, 243, 273, 304, 334>>[m]
        + (IF m > 2 /\ IsLeap(y) THEN 1 ELSE 0)

ToOrdinal(y, m, d) == DaysBeforeYear(y) + DaysBeforeMonth(y, m) + d

EpochOrdinal == ToOrdinal(2020, 1, 1)

DateTime(y, mo, d, h, mi, s) ==
    [year |-> y, month |-> mo, day |-> d, hour |-> h, minute |-> mi, second |-> s]

\* seconds from 2020-01-01 00:00:00 to dt
ToSeconds(dt) ==
    (ToOrdinal(dt.year, dt.month, dt.day) - EpochOrdinal) * 86400
        + dt.hour * 3600 + dt.minute * 60 + dt.second

\* the year holding the day of ordinal n
YearOf(n) ==
    CHOOSE y \in Years : DaysBeforeYear(y) < n /\ n <= DaysBeforeYear(y + 1)

\* the month of year y holding its day number doy
MonthOf(y, doy) ==
    CHOOSE m \in 1..12 :
        DaysBeforeMonth(y, m) < doy
        /\ doy <= DaysBeforeMonth(y, m) + DaysInMonth(y, m)

FromSeconds(t) ==
    Assign((t \div 86400) + EpochOrdinal, LAMBDA n :
    Assign(t % 86400, LAMBDA sod :
    Assign(YearOf(n), LAMBDA y :
    Assign(n - DaysBeforeYear(y), LAMBDA doy :
    Assign(MonthOf(y, doy), LAMBDA mo :
        DateTime(y, mo, doy - DaysBeforeMonth(y, mo),
                 sod \div 3600, (sod % 3600) \div 60, sod % 60))))))

\* datetime - datetime: a timedelta, normalised so that 0 <= seconds < 86400
TimeDelta(t1, t2) ==
    [days |-> (t1 - t2) \div 86400, seconds |-> (t1 - t2) % 86400]

total_seconds(td) == td.days * 86400 + td.seconds

-----------------------------------------------------------------------------
(* dateutil.relativedelta.relativedelta(dt1, dt2) *)

\* relativedelta._set_months
SetMonths(months) ==
    IF Abs(months) > 11
    THEN [years |-> TruncDiv(months, 12), months |-> TruncMod(months, 12)]
    ELSE [years |-> 0, months |-> months]

\* dt + relativedelta(years, months): the day is clipped to the month's length
AddMonths(dt, years, months) ==
    Assign(dt.month + months, LAMBDA m0 :
    Assign(IF m0 > 12 THEN dt.year + years + 1
           ELSE IF m0 < 1 THEN dt.year + years - 1
           ELSE dt.year + years, LAMBDA y :
    Assign(IF m0 > 12 THEN m0 - 12 ELSE IF m0 < 1 THEN m0 + 12 ELSE m0,
           LAMBDA m :
        [dt EXCEPT !.year = y, !.month = m,
                   !.day = Min(DaysInMonth(y, m), dt.day)])))

\* dt2 + relativedelta(months=months), in seconds
ShiftedBy(t2, months) ==
    Assign(SetMonths(months), LAMBDA ym :
    Assign(FromSeconds(t2), LAMBDA d2 :
        ToSeconds(AddMonths(d2, ym.years, ym.months))))

\* the loop that moves the month count back until dt2 + months does not pass dt1
RECURSIVE WholeMonths(_, _, _)
WholeMonths(t1, t2, months) ==
    IF t1 < t2
    THEN IF t1 > ShiftedBy(t2, months)
         THEN WholeMonths(t1, t2, months + 1) ELSE months
    ELSE IF t1 < ShiftedBy(t2, months)
         THEN WholeMonths(t1, t2, months - 1) ELSE months

relativedelta(t1, t2) ==
    Assign(FromSeconds(t1), LAMBDA d1 :
    Assign(FromSeconds(t2), LAMBDA d2 :
    Assign(WholeMonths(t1, t2,
               (d1.year - d2.year) * 12 + (d1.month - d2.month)),
           LAMBDA months :
    Assign(SetMonths(months), LAMBDA ym :
    Assign(t1 - ShiftedBy(t2, months), LAMBDA secs :
    Assign(TruncDiv(secs, 60), LAMBDA mins :
    Assign(TruncDiv(mins, 60), LAMBDA hrs :
        [years   |-> ym.years,
         months  |-> ym.months,
         days    |-> TruncDiv(hrs, 24),
         hours   |-> TruncMod(hrs, 24),
         minutes |-> TruncMod(mins, 60),
         seconds |-> TruncMod(secs, 60)])))))))

-----------------------------------------------------------------------------
(* The clock readings and the timestamps the operations are tried on *)

NowSet ==
    { ToSeconds(DateTime(2024, 3, 1, 0, 0, 0)),
      ToSeconds(DateTime(2023, 3, 31, 12, 30, 0)),
      ToSeconds(DateTime(2025, 1, 1, 0, 0, 59)) }

Day == 24 * 3600

\* ages (now - created_at) in seconds; a negative age is a timestamp ahead of
\* the local clock
AgeSet ==
    { -3600, 0, 45, 60, 119, 120, 3600, 7199, 7200 + 60, Day - 1, Day,
      2 * Day + 3600, 29 * Day, 31 * Day, 59 * Day, 62 * Day,
      365 * Day, 366 * Day, 400 * Day, 731 * Day }

\* the timestamps tried against the clock reading now: now - age, and the
\* timestamp exactly 2 years and 3 months before now
CreatedSet(now) ==
    { now - a : a \in AgeSet }
        \cup { ToSeconds(AddMonths(FromSeconds(now), -2, -3)) }

-----------------------------------------------------------------------------
(* BaseService.check_request_state *)

\* "if state_ is not None and value is not None and duration is not None"
FilterUnsetDuration(state_, value, duration) ==
    ~IsNone(state_) /\ ~IsNone(value)

FilterSet(state_, value, duration) ==
    ~IsNone(state_) /\ ~IsNone(value) /\ ~IsNone(duration)

\* "if state_ not in ('older', 'newer')"
AnyState(state_) == FALSE

InvalidState(state_) == state_ \notin {Some("older"), Some("newer")}

\* the pair "if state_ == 'older' and q < value: return False
\*           elif state_ == 'newer' and q >= value: return False",
\* falling through to the final "return True"
CompareInclusive(state_, q, value) ==
    IF state_ = Some("older") /\ q <= Val(value) THEN Returns(FALSE)
    ELSE IF state_ = Some("newer") /\ q > Val(value) THEN Returns(FALSE)
    ELSE Returns(TRUE)

CompareSwapped(state_, q, value) ==
    IF state_ = Some("newer") /\ q < Val(value) THEN Returns(FALSE)
    ELSE IF state_ = Some("older") /\ q >= Val(value) THEN Returns(FALSE)
    ELSE Returns(TRUE)

Compare(state_, q, value) ==
    IF state_ = Some("older") /\ q < Val(value) THEN Returns(FALSE)
    ELSE IF state_ = Some("newer") /\ q >= Val(value) THEN Returns(FALSE)
    ELSE Returns(TRUE)

\* now1 and now2 are the two readings of datetime.utcnow().  The quotients
\* total_seconds() / 3600 and total_seconds() / 60 are fractions: q / k < value
\* is compared as q < value * k, passing value * k as the value.
check_request_state(created_at, state_, value, duration, now1, now2) ==
    IF FilterSet(state_, value, duration)
    THEN Assign(relativedelta(now1, created_at), LAMBDA rel_diff :
         Assign(TimeDelta(now2, created_at), LAMBDA abs_diff :
             IF InvalidState(state_)
             THEN Raises("ValueError", <<"Invalid state value: ", state_>>)
             ELSE IF duration = Some("y")
             THEN Compare(state_, rel_diff.years, value)
             ELSE IF duration = Some("m")
             THEN Compare(state_, (rel_diff.years * 12) + rel_diff.months,
                          value)
             ELSE IF duration = Some("d")
             THEN Compare(state_, abs_diff.days, value)
             ELSE IF duration = Some("h")
             THEN Compare(state_, total_seconds(abs_diff),
                          Some(Val(value) * 3600))
             ELSE IF duration = Some("min")
             THEN Compare(state_, total_seconds(abs_diff),
                          Some(Val(value) * 60))
             ELSE Raises("ValueError",
                         <<"Invalid duration type: ", duration>>)))
    ELSE Returns(TRUE)

StateInputs == {None, Some("older"), Some("newer"), Some("ancient")}
ValueInputs == {None} \cup { Some(v) : v \in 0..MaxValue }
DurationInputs ==
    {None} \cup { Some(d) : d \in {"y", "m", "d", "h", "min", "week"} }

-----------------------------------------------------------------------------
(* BaseReview *)

RECURSIVE Join(_, _)
\* sep.join(list) for a list of strings
Join(sep, list) ==
    IF list = <<>> THEN <<>>
    ELSE IF Len(list) = 1 THEN list[1]
    ELSE list[1] \o sep \o Join(sep, Tail(list))

\* one step of the loop over time_dict.items(): the list `result` after the
\* component k with value v
CollectMinuteAlways(result, k, v) ==
    IF v = 1 THEN Append(result, <<ToString(v), " ", k>>)
    ELSE IF v > 1 THEN Append(result, <<ToString(v), " ", k, "s">>)
    ELSE result

Collect(result, k, v) ==
    IF k = "minute" /\ result # <<>> THEN result
    ELSE IF v = 1 THEN Append(result, <<ToString(v), " ", k>>)
    ELSE IF v > 1 THEN Append(result, <<ToString(v), " ", k, "s">>)
    ELSE result

RECURSIVE Walk(_, _)
Walk(items, result) ==
    IF items = <<>> THEN result
    ELSE Walk(Tail(items), Collect(result, items[1][1], items[1][2]))

format_duration(created_at, now) ==
    Assign(relativedelta(now, created_at), LAMBDA rel_diff :
    Assign(<< <<"year", rel_diff.years>>,
              <<"month", rel_diff.months>>,
              <<"day", rel_diff.days>>,
              <<"hour", rel_diff.hours>>,
              <<"minute", rel_diff.minutes>> >>, LAMBDA time_dict :
    Assign(Walk(time_dict, <<>>), LAMBDA result :
        IF result = <<>> THEN <<"less than 1 minute">>
        ELSE Join(<<" ">>, result))))

since(self, now) == format_duration(self.time, now)

LastComment(author, body, created_at) ==
    [author |-> author, body |-> body, created_at |-> created_at]

BaseReview(time, comments, last_comment) ==
    [user |-> "alice", title |-> "Fix the parser", url |-> "http://git/pr/1",
     time |-> time, comments |-> comments, image |-> None,
     last_comment |-> last_comment]

\* ", last comment by \x02{}\x02 {} ago", appended by the three text styles
LastCommentSuffix(self, now) ==
    IF ~IsNone(self.last_comment)
    THEN <<", last comment by ", "\\x02", Val(self.last_comment).author,
           "\\x02", " ">>
             \o format_duration(Val(self.last_comment).created_at, now)
             \o <<" ago">>
    ELSE <<>>

_format_oneline(self, i, N, now) ==
    <<self.user, " filed '", self.title, "' ", self.url, " ">>
        \o since(self, now) \o <<" ago">>
        \o (IF self.comments = 1
            THEN <<", ", ToString(self.comments), " comment">>
            ELSE IF self.comments > 1
            THEN <<", ", ToString(self.comments), " comments">>
            ELSE <<>>)
        \o LastCommentSuffix(self, now)

_format_indented_plural(self, i, N, now) ==
    <<self.user, " filed '", self.title, "'", "\n\t", self.url, "\n\t">>
        \o since(self, now) \o <<" ago">>
        \o (IF self.comments >= 1
            THEN <<"\n\t", ToString(self.comments), " comments">>
            ELSE <<>>)
        \o LastCommentSuffix(self, now)

_format_indented(self, i, N, now) ==
    <<self.user, " filed '", self.title, "'", "\n\t", self.url, "\n\t">>
        \o since(self, now) \o <<" ago">>
        \o (IF self.comments = 1
            THEN <<"\n\t", ToString(self.comments), " comment">>
            ELSE IF self.comments > 1
            THEN <<"\n\t", ToString(self.comments), " comments">>
            ELSE <<>>)
        \o LastCommentSuffix(self, now)

_format_irc(self, now) ==
    <<"\\x02", self.user, "\\x02", " filed ", "\\x02", "'", self.title, "'",
      "\\x02", " ", "\\x0312", self.url, "\\x03", " ">>
        \o since(self, now) \o <<" ago">>
        \o (IF self.comments = 1
            THEN <<", ", ToString(self.comments), " comment">>
            ELSE IF self.comments > 1
            THEN <<", ", ToString(self.comments), " comments">>
            ELSE <<>>)
        \o LastCommentSuffix(self, now)

\* time.mktime(dt.timetuple()): seconds since 1970-01-01 as a float, the local
\* time zone being UTC (1577836800 is 2020-01-01 00:00:00 UTC)
mktime(t) == t + 1577836800

\* JSON values: a dict is a sequence of <<key, value>> pairs in insertion order
JStr(s) == [t |-> "str", v |-> s]
JInt(n) == [t |-> "int", v |-> n]
JFloat(n) == [t |-> "float", v |-> n]
JNull == [t |-> "null", v |-> 0]
JObj(pairs) == [t |-> "obj", v |-> pairs]

Keys(pairs) == { pairs[k][1] : k \in DOMAIN pairs }
Get(pairs, key) == pairs[CHOOSE k \in DOMAIN pairs : pairs[k][1] = key][2]

\* "if x:" for x None or an integer
Truthy(x) == ~IsNone(x) /\ Val(x) # 0

\* "if show_last_comment is not None"
ShowBodyIfTruthy(show_last_comment) == Truthy(show_last_comment)

ShowBody(show_last_comment) == ~IsNone(show_last_comment)

__json__(self, show_last_comment, now) ==
    LET data == << <<"user", JStr(<<self.user>>)>>,
                   <<"title", JStr(<<self.title>>)>>,
                   <<"url", JStr(<<self.url>>)>>,
                   <<"relative_time", JStr(since(self, now))>>,
                   <<"time", JFloat(mktime(self.time))>>,
                   <<"comments", JInt(self.comments)>>,
                   <<"type", JStr(<<"BaseReview">>)>>,
                   <<"image", IF IsNone(self.image) THEN JNull
                              ELSE JStr(<<Val(self.image)>>)>> >>
        lc   == Val(self.last_comment)
        last == << <<"author", JStr(<<lc.author>>)>>,
                   <<"created_at", JFloat(mktime(lc.created_at))>> >>
    IN  IF ~IsNone(self.last_comment)
        THEN Append(data,
                 <<"last_comment",
                   JObj(IF ShowBody(show_last_comment)
                        THEN Append(last, <<"body", JStr(<<lc.body>>)>>)
                        ELSE last)>>)
        ELSE data

RECURSIVE Spaces(_)
Spaces(n) == IF n = 0 THEN <<>> ELSE <<" ">> \o Spaces(n - 1)

RECURSIVE json_dumps(_, _, _)
RECURSIVE DumpItems(_, _, _)
\* the members of a dict, each on its own line at the given depth, separated
\* by commas
DumpItems(pairs, indent, depth) ==
    IF pairs = <<>> THEN <<>>
    ELSE <<"\n">> \o Spaces(indent * depth)
             \o <<"\"", pairs[1][1], "\"", ": ">>
             \o json_dumps(pairs[1][2], indent, depth)
             \o (IF Len(pairs) > 1 THEN <<",">> ELSE <<>>)
             \o DumpItems(Tail(pairs), indent, depth)

\* json.dumps(value, indent=indent), at nesting level depth
json_dumps(value, indent, depth) ==
    IF value.t = "str" THEN <<"\"">> \o value.v \o <<"\"">>
    ELSE IF value.t = "int" THEN <<ToString(value.v)>>
    ELSE IF value.t = "float" THEN <<ToString(value.v), ".0">>
    ELSE IF value.t = "null" THEN <<"null">>
    ELSE IF value.v = <<>> THEN <<"{}">>
    ELSE <<"{">> \o DumpItems(value.v, indent, depth + 1)
             \o <<"\n">> \o Spaces(indent * depth) \o <<"}">>

_format_json(self, i, N, show_last_comment, now) ==
    IF Truthy(i) /\ Truthy(N)
    THEN LET suffix == IF Val(i) < Val(N) - 1 THEN <<",">> ELSE <<>>
         IN  Assign(__json__(self, show_last_comment, now), LAMBDA data :
                 Some(json_dumps(JObj(data), 2, 0) \o suffix))
    ELSE None

\* lookup[style], which raises KeyError for a key that is not in the dict
GetOrNone(lookup, style) ==
    IF style \in DOMAIN lookup THEN Returns(lookup[style])
    ELSE Returns(None)

GetItem(lookup, style) ==
    IF style \in DOMAIN lookup THEN Returns(lookup[style])
    ELSE Raises("KeyError", <<style>>)

\* the four formatters run when the dict is built
format(self, style, i, N, show_last_comment, now) ==
    Assign([oneline  |-> Some(_format_oneline(self, i, N, now)),
            indented |-> Some(_format_indented(self, i, N, now)),
            json     |-> _format_json(self, i, N, show_last_comment, now),
            irc      |-> Some(_format_irc(self, now))], LAMBDA lookup :
        GetItem(lookup, style))

StyleInputs == {"oneline", "indented", "json", "irc", "xml", "JSON"}
IndexInputs == {None} \cup { Some(k) : k \in 0..MaxTotal }
TotalInputs == {None} \cup { Some(k) : k \in 0..MaxTotal }
ShowInputs == {None, Some(0), Some(1)}

\* the records rendered at the clock reading now
RecordAges == {45, 400 * Day}
CommentAges == {60}
Records(now) ==
    { BaseReview(now - a, c, lc) :
        a \in RecordAges, c \in 0..MaxComments,
        lc \in {None} \cup { Some(LastComment("bob", "LGTM", now - b)) :
                                b \in CommentAges } }

-----------------------------------------------------------------------------
(* The state machine *)

Init ==
    /\ utcnow \in NowSet
    /\ review = None
    /\ op = "idle"
    /\ args = <<>>
    /\ ret = <<>>

\* BaseService.check_request_state, called by a platform client on a review
\* request it has fetched
CheckRequestState ==
    /\ op = "idle"
    /\ review = None
    /\ \E tick \in {0, 1}, created_at \in CreatedSet(utcnow),
          state_ \in StateInputs, value \in ValueInputs,
          duration \in DurationInputs :
           /\ op' = "check_request_state"
           /\ args' = [created_at |-> created_at, state_ |-> state_,
                       value |-> value, duration |-> duration,
                       now1 |-> utcnow, now2 |-> utcnow + tick]
           /\ ret' = check_request_state(created_at, state_, value, duration,
                                         utcnow, utcnow + tick)
    /\ UNCHANGED <<utcnow, review>>

\* BaseReview.format_duration, a static method
FormatDuration ==
    /\ op = "idle"
    /\ review = None
    /\ \E created_at \in CreatedSet(utcnow) :
           /\ op' = "format_duration"
           /\ args' = [created_at |-> created_at]
           /\ ret' = Returns(format_duration(created_at, utcnow))
    /\ UNCHANGED <<utcnow, review>>

\* BaseReview.__init__
Construct ==
    /\ op = "idle"
    /\ review = None
    /\ \E self \in Records(utcnow) : review' = Some(self)
    /\ UNCHANGED <<utcnow, op, args, ret>>

\* BaseReview.format
Format ==
    /\ op = "idle"
    /\ review # None
    /\ \E style \in StyleInputs, i \in IndexInputs, N \in TotalInputs,
          show_last_comment \in ShowInputs :
           /\ op' = "format"
           /\ args' = [style |-> style, i |-> i, N |-> N,
                       show_last_comment |-> show_last_comment]
           /\ ret' = format(Val(review), style, i, N, show_last_comment, utcnow)
    /\ UNCHANGED <<utcnow, review>>

\* BaseReview.__json__
Json ==
    /\ op = "idle"
    /\ review # None
    /\ \E show_last_comment \in ShowInputs :
           /\ op' = "__json__"
           /\ args' = [show_last_comment |-> show_last_comment]
           /\ ret' = Returns(__json__(Val(review), show_last_comment, utcnow))
    /\ UNCHANGED <<utcnow, review>>

\* the outcome goes to the caller
Return ==
    /\ op # "idle"
    /\ op' = "idle"
    /\ args' = <<>>
    /\ ret' = <<>>
    /\ UNCHANGED <<utcnow, review>>

\* the review is dropped after rendering
Discard ==
    /\ op = "idle"
    /\ review # None
    /\ review' = None
    /\ UNCHANGED <<utcnow, op, args, ret>>

Next ==
    \/ CheckRequestState
    \/ FormatDuration
    \/ Construct
    \/ Format
    \/ Json
    \/ Return
    \/ Discard

Spec == Init /\ [][Next]_vars

-----------------------------------------------------------------------------
(* Properties of check_request_state *)

IsCheck == op = "check_request_state"

ValidStates == {Some("older"), Some("newer")}
ValidUnits == {Some("y"), Some("m"), Some("d"), Some("h"), Some("min")}

AllSet == ~IsNone(args.state_) /\ ~IsNone(args.value) /\ ~IsNone(args.duration)

\* seconds elapsed from created_at to the second clock reading
ElapsedSeconds == args.now2 - args.created_at

\* "the unit's computed quantity is >= value".  The quotients of the units h
\* and min are fractions and the value is an integer, so the quotient is
\* >= value exactly when its integer part is.
QuantityAtLeastValue ==
    LET rel == relativedelta(args.now1, args.created_at)
        v   == Val(args.value)
    IN  CASE args.duration = Some("y")   -> rel.years >= v
          [] args.duration = Some("m")   -> rel.years * 12 + rel.months >= v
          [] args.duration = Some("d")   -> (ElapsedSeconds \div 86400) >= v
          [] args.duration = Some("h")   -> (ElapsedSeconds \div 3600) >= v
          [] args.duration = Some("min") -> (ElapsedSeconds \div 60) >= v

OtherState == IF args.state_ = Some("older") THEN Some("newer") ELSE Some("older")

\* C1: with state, value and unit set and valid, "older" passes exactly when
\* the unit's quantity is >= value and "newer" exactly when it is < value, so
\* exactly one of the two states passes on the same input.
C1_OlderNewerPolicy ==
    (IsCheck /\ AllSet /\ args.state_ \in ValidStates
        /\ args.duration \in ValidUnits)
    => /\ ret.kind = "return"
       /\ args.state_ = Some("older") => (ret.value <=> QuantityAtLeastValue)
       /\ args.state_ = Some("newer") => (ret.value <=> ~QuantityAtLeastValue)
       /\ check_request_state(args.created_at, OtherState, args.value,
                              args.duration, args.now1, args.now2)
              = Returns(~ret.value)

\* one second short of two hours: "older than 2 h" is rejected
C1_Witness ==
    /\ IsCheck
    /\ args.state_ = Some("older")
    /\ args.duration = Some("h")
    /\ args.value = Some(2)
    /\ ElapsedSeconds = 7199
    /\ ret = Returns(FALSE)

\* C2: with any of state, value, unit unset the filter returns true and
\* raises nothing, whatever the other inputs and created_at are.
C2_UnsetFilterPasses ==
    (IsCheck /\ ~AllSet) => ret = Returns(TRUE)

C2_Witness ==
    /\ IsCheck
    /\ args.state_ = Some("ancient")
    /\ args.value = Some(1)
    /\ args.duration = None
    /\ ret = Returns(TRUE)

\* the two errors are ValueError, told apart by their message
IsInvalidStateError(r) ==
    r.kind = "raise" /\ r.exc = "ValueError" /\ r.msg[1] = "Invalid state value: "

IsInvalidDurationError(r) ==
    r.kind = "raise" /\ r.exc = "ValueError"
        /\ r.msg[1] = "Invalid duration type: "

\* C3: with all three set, a state other than older/newer ends in the invalid
\* state error whatever the unit, a valid state with an unknown unit ends in
\* the invalid duration error; neither returns a boolean and the two errors
\* differ.
C3_InvalidInputsRaise ==
    (IsCheck /\ AllSet)
    => /\ args.state_ \notin ValidStates
            => IsInvalidStateError(ret) /\ ~IsInvalidDurationError(ret)
       /\ (args.state_ \in ValidStates /\ args.duration \notin ValidUnits)
            => IsInvalidDurationError(ret) /\ ~IsInvalidStateError(ret)
       /\ (args.state_ \notin ValidStates \/ args.duration \notin ValidUnits)
            => ret.kind # "return"

C3_Witness ==
    /\ IsCheck
    /\ args.state_ = Some("ancient")
    /\ args.value = Some(1)
    /\ args.duration = Some("y")
    /\ IsInvalidStateError(ret)

Created400DaysAgo == args.created_at = args.now1 - 400 * Day

\* C10 as stated: for a review created 400 days ago, older/1/y returns false
\* and older/1/d returns true.
C10_Original ==
    (IsCheck /\ Created400DaysAgo /\ args.state_ = Some("older")
        /\ args.value = Some(1))
    => /\ args.duration = Some("y") => ret = Returns(FALSE)
       /\ args.duration = Some("d") => ret = Returns(TRUE)

\* C10 amended: for a review created 400 days ago, older/1/y returns true
\* (400 days hold one whole relative year) and older/1/d returns true.
C10_Amended ==
    (IsCheck /\ Created400DaysAgo /\ args.state_ = Some("older")
        /\ args.value = Some(1))
    => /\ args.duration = Some("y") => ret = Returns(TRUE)
       /\ args.duration = Some("d") => ret = Returns(TRUE)

C10_Witness ==
    /\ IsCheck
    /\ Created400DaysAgo
    /\ args.state_ = Some("older")
    /\ args.value = Some(1)
    /\ args.duration = Some("y")
    /\ relativedelta(args.now1, args.created_at).years = 1
    /\ ret = Returns(TRUE)

-----------------------------------------------------------------------------
(* Properties of format_duration *)

IsFormatDuration == op = "format_duration"

Component(rel, k) ==
    CASE k = "year"   -> rel.years
      [] k = "month"  -> rel.months
      [] k = "day"    -> rel.days
      [] k = "hour"   -> rel.hours
      [] k = "minute" -> rel.minutes

CoarseUnits == <<"year", "month", "day", "hour">>
AllUnits == <<"year", "month", "day", "hour", "minute">>

\* the unit name k is a piece of the string out
Mentions(out, k) == \E idx \in DOMAIN out : out[idx] = k

\* "1 <unit>" or "<v> <unit>s"
Rendered(k, v) ==
    IF v = 1 THEN <<"1", " ", k>> ELSE <<ToString(v), " ", k, "s">>

RECURSIVE SpaceJoined(_)
SpaceJoined(parts) ==
    IF Len(parts) = 1 THEN parts[1]
    ELSE parts[1] \o <<" ">> \o SpaceJoined(Tail(parts))

\* the units whose value is at least min_value: the coarse ones in order, or
\* the minute alone when no coarse one qualifies
UnitsShown(rel, min_value) ==
    LET coarse == SelectSeq(CoarseUnits,
                            LAMBDA k : Component(rel, k) >= min_value)
    IN  IF coarse # <<>> THEN coarse
        ELSE IF Component(rel, "minute") >= min_value THEN <<"minute">>
        ELSE <<>>

\* C7 as stated: the nonzero year, month, day and hour components are
\* emitted, the minute only when none of them was, "less than 1 minute" when
\* all five are zero, and the result is never empty.
C7_Original ==
    IsFormatDuration
    => LET rel == relativedelta(utcnow, args.created_at)
           out == ret.value
       IN  /\ \A idx \in DOMAIN CoarseUnits :
                 Mentions(out, CoarseUnits[idx])
                     <=> Component(rel, CoarseUnits[idx]) # 0
           /\ Mentions(out, "minute")
                 => \A idx \in DOMAIN CoarseUnits :
                        ~Mentions(out, CoarseUnits[idx])
           /\ (\A idx \in DOMAIN AllUnits : Component(rel, AllUnits[idx]) = 0)
                 => out = <<"less than 1 minute">>
           /\ out # <<>>

\* C7 amended: the year, month, day and hour components that are >= 1 are
\* emitted in that order, "1 <unit>" for 1 and "<v> <unit>s" above 1, joined
\* by single spaces; the minute is emitted only when none of them was and it
\* is >= 1; when no component is >= 1 (all zero, or a created_at ahead of the
\* clock, whose components are negative) the result is "less than 1 minute".
\* The result is never empty.
C7_Amended ==
    IsFormatDuration
    => LET rel   == relativedelta(utcnow, args.created_at)
           shown == UnitsShown(rel, 1)
       IN  /\ ret.value # <<>>
           /\ ret.value =
                 IF shown = <<>> THEN <<"less than 1 minute">>
                 ELSE SpaceJoined([idx \in DOMAIN shown |->
                          Rendered(shown[idx], Component(rel, shown[idx]))])

\* a created_at one hour ahead of the clock: the hour component is -1
C7_Witness ==
    /\ IsFormatDuration
    /\ relativedelta(utcnow, args.created_at).hours = -1
    /\ ret.value = <<"less than 1 minute">>

\* two components, the minute suppressed: 2 hours and 1 minute old
C7_WitnessSuppressed ==
    /\ IsFormatDuration
    /\ relativedelta(utcnow, args.created_at).minutes = 1
    /\ ret.value = <<"2", " ", "hour", "s">>

-----------------------------------------------------------------------------
(* Properties of format and __json__ *)

IsFormat == op = "format"
IsJson == op = "__json__"

Styles == {"oneline", "indented", "json", "irc"}
TextStyles == {"oneline", "indented", "irc"}
ControlPieces == {"\\x02", "\\x03", "\\x0312"}

Count(out, piece) == Cardinality({ idx \in DOMAIN out : out[idx] = piece })

\* C4 as stated: in the json style, for every total >= 1 and 0 <= index <
\* total, format returns the pretty-printed JSON of the record, followed by
\* a comma exactly when index # total - 1; the fragment is never empty.
C4_JsonComma ==
    (IsFormat /\ args.style = "json" /\ ~IsNone(args.i) /\ ~IsNone(args.N)
        /\ Val(args.N) >= 1 /\ 0 <= Val(args.i) /\ Val(args.i) < Val(args.N))
    => /\ ret.kind = "return"
       /\ ~IsNone(ret.value)
       /\ Val(ret.value) =
              json_dumps(JObj(__json__(Val(review), args.show_last_comment,
                                       utcnow)), 2, 0)
                  \o (IF Val(args.i) # Val(args.N) - 1 THEN <<",">> ELSE <<>>)

\* C5: an unrecognised style always ends in the unknown-style error (KeyError)
\* and returns nothing; a recognised style returns what its own formatter
\* returns for the same arguments.
C5_StyleDispatch ==
    IsFormat
    => LET self == Val(review)
       IN  /\ args.style \notin Styles
                => ret.kind = "raise" /\ ret.exc = "KeyError"
           /\ args.style = "oneline"
                => ret = Returns(Some(_format_oneline(self, args.i, args.N,
                                                      utcnow)))
           /\ args.style = "indented"
                => ret = Returns(Some(_format_indented(self, args.i, args.N,
                                                       utcnow)))
           /\ args.style = "json"
                => ret = Returns(_format_json(self, args.i, args.N,
                                              args.show_last_comment, utcnow))
           /\ args.style = "irc"
                => ret = Returns(Some(_format_irc(self, utcnow)))

\* a style that differs from a recognised one by case only
C5_Witness ==
    /\ IsFormat
    /\ args.style = "JSON"
    /\ ret = Raises("KeyError", <<"JSON">>)

HasLastCommentKey == "last_comment" \in Keys(ret.value)
LastCommentKeys == Keys(Get(ret.value, "last_comment").v)

\* C6 as stated: last_comment is present exactly when the record has a last
\* comment; its body is present only when show_last_comment is true; with
\* show_last_comment unset or false it carries author and created_at only.
C6_Original ==
    IsJson
    => /\ HasLastCommentKey <=> ~IsNone(Val(review).last_comment)
       /\ (HasLastCommentKey /\ "body" \in LastCommentKeys)
            => args.show_last_comment = Some(1)
       /\ (HasLastCommentKey /\ args.show_last_comment \in {None, Some(0)})
            => LastCommentKeys = {"author", "created_at"}

\* C6 amended: last_comment is present exactly when the record has a last
\* comment; it always carries author and created_at, and its body is present
\* exactly when show_last_comment is set (not None), false and 0 included.
C6_Amended ==
    IsJson
    => /\ HasLastCommentKey <=> ~IsNone(Val(review).last_comment)
       /\ HasLastCommentKey
            => /\ {"author", "created_at"} \subseteq LastCommentKeys
               /\ "body" \in LastCommentKeys
                     <=> ~IsNone(args.show_last_comment)

\* show_last_comment is False and the body is serialised
C6_Witness ==
    /\ IsJson
    /\ args.show_last_comment = Some(0)
    /\ HasLastCommentKey
    /\ LastCommentKeys = {"author", "created_at", "body"}

\* C8: in the three text styles, no comment-count suffix for 0 comments, the
\* singular "1 comment" once for 1, the plural "<N> comments" once above 1;
\* the last-comment suffix is present exactly when the record has a last
\* comment, whatever the count.
C8_CommentSuffix ==
    (IsFormat /\ args.style \in TextStyles)
    => /\ ret.kind = "return"
       /\ ~IsNone(ret.value)
       /\ LET out == Val(ret.value)
              c   == Val(review).comments
          IN  /\ Count(out, " comment") = (IF c = 1 THEN 1 ELSE 0)
              /\ Count(out, " comments") = (IF c > 1 THEN 1 ELSE 0)
              /\ \A idx \in DOMAIN out :
                     out[idx] \in {" comment", " comments"}
                         => out[idx - 1] = ToString(c)
              /\ Count(out, ", last comment by ")
                     = (IF IsNone(Val(review).last_comment) THEN 0 ELSE 1)

C8_Witness ==
    /\ IsFormat
    /\ args.style = "indented"
    /\ Val(review).comments = 1
    /\ ~IsNone(Val(review).last_comment)
    /\ Count(Val(ret.value), " comment") = 1
    /\ Count(Val(ret.value), ", last comment by ") = 1

\* C9 as stated: the oneline rendering is "{author} filed '{title}' {url}
\* {since} ago", the comment-count suffix, and ", last comment by {author}
\* {duration} ago" when a last comment exists; the control sequences \x02 and
\* \x03 appear in the irc style only.
C9_OnelineLayout ==
    IsFormat
    => LET self == Val(review)
           lc   == Val(self.last_comment)
       IN  /\ args.style = "oneline"
                => ret = Returns(Some(
                       <<self.user, " filed '", self.title, "' ", self.url,
                         " ">>
                         \o format_duration(self.time, utcnow) \o <<" ago">>
                         \o (IF self.comments = 1 THEN <<", ", "1", " comment">>
                             ELSE IF self.comments > 1
                             THEN <<", ", ToString(self.comments), " comments">>
                             ELSE <<>>)
                         \o (IF IsNone(self.last_comment) THEN <<>>
                             ELSE <<", last comment by ", lc.author, " ">>
                                      \o format_duration(lc.created_at, utcnow)
                                      \o <<" ago">>)))
           /\ (args.style \in Styles \ {"irc"} /\ ~IsNone(ret.value))
                => \A idx \in DOMAIN Val(ret.value) :
                       Val(ret.value)[idx] \notin ControlPieces

====
